---- MODULE Spec2Model ----
(***************************************************************************)
(* Model of the skyline output plugin (plugins/outputs/skyline/skyline.go): *)
(* monitors fold access-log metrics into per-cycle accumulators, every     *)
(* alert formula is evaluated once per Write, and each rendered message is *)
(* handed to its own goroutine for delivery.                               *)
(*                                                                         *)
(* Numbers are float64 in the source; the model uses the integers among    *)
(* them.  Strings stay strings; Chars spells out the characters of the few *)
(* strings whose characters the code inspects (regexp match, ParseInt,     *)
(* ParseFloat), because a string value cannot be indexed here.             *)
(***************************************************************************)
EXTENDS Integers, Sequences, FiniteSets, Bags, TLC

VARIABLES fields, alerts, inflight, call, outputs, params, run

vars == <<fields, alerts, inflight, call, outputs, params, run>>

----------------------------------------------------------------------------
(* Bounds of the model *)

MaxCount == 3       \* highest Count a Write may leave in a rule
MaxBatch == 2       \* longest batch handed to one Write
MaxInFlight == 1    \* most delivery goroutines alive at once
MaxDirect == 2      \* highest Count a direct ShowAlerts call may leave in a rule
MaxFold == 1        \* most values a monitor folds between two direct ShowAlerts calls
MaxFoldRules == 3   \* the same in the specification of the rules' independence
MaxPending == 2     \* most goroutines running at a time in the specification of delivery

----------------------------------------------------------------------------
(* Program constants *)

defaultAlertThreshold == 2

Nil == "nil"

----------------------------------------------------------------------------
(* Characters of the strings the code looks into *)

Chars ==
    ("" :> <<>>)
    @@ ("w.x" :> <<"w", ".", "x">>)
    @@ ("m.x" :> <<"m", ".", "x">>)
    @@ ("aw.xb" :> <<"a", "w", ".", "x", "b">>)
    @@ ("w-x" :> <<"w", "-", "x">>)
    @@ ("api" :> <<"a", "p", "i">>)
    @@ ("/" :> <<"/">>)
    @@ ("/v1" :> <<"/", "v", "1">>)
    @@ ("/v" :> <<"/", "v">>)
    @@ ("204" :> <<"2", "0", "4">>)
    @@ ("302" :> <<"3", "0", "2">>)
    @@ ("504" :> <<"5", "0", "4">>)
    @@ ("100" :> <<"1", "0", "0">>)
    @@ ("abc" :> <<"a", "b", "c">>)
    @@ ("3" :> <<"3">>)

DigitVal ==
    ("0" :> 0) @@ ("1" :> 1) @@ ("2" :> 2) @@ ("3" :> 3) @@ ("4" :> 4)
    @@ ("5" :> 5) @@ ("6" :> 6) @@ ("7" :> 7) @@ ("8" :> 8) @@ ("9" :> 9)

RECURSIVE DecimalValue(_)
DecimalValue(cs) ==
    IF cs = <<>> THEN 0
    ELSE 10 * DecimalValue(SubSeq(cs, 1, Len(cs) - 1)) + DigitVal[cs[Len(cs)]]

\* strconv.ParseInt(s, 0, 64) and strconv.ParseFloat(s, 64) on the strings of
\* the model: a non-empty run of decimal digits parses, anything else fails.
ParseNumber(s) ==
    LET cs == Chars[s] IN
    IF cs # <<>> /\ \A i \in 1..Len(cs) : cs[i] \in DOMAIN DigitVal
    THEN [err |-> Nil, v |-> DecimalValue(cs)]
    ELSE [err |-> "syntax", v |-> 0]

\* MatchString that matches the pattern against the whole of s
MatchStringAnchored(pat, s) ==
    LET p == Chars[pat]
        t == Chars[s]
    IN /\ Len(p) = Len(t)
       /\ \A j \in 1..Len(p) : p[j] = "." \/ p[j] = t[j]

\* regexp.MatchString for a pattern of literal characters and '.': the
\* pattern is searched anywhere in s (it is not anchored).
MatchString(pat, s) ==
    LET p == Chars[pat]
        t == Chars[s]
    IN \E i \in 1..(Len(t) - Len(p) + 1) :
          \A j \in 1..Len(p) : p[j] = "." \/ p[j] = t[i + j - 1]

----------------------------------------------------------------------------
(* Configuration: the monitors of the plugin and their alert formulas *)

\* s.Monitors, in the order of the configuration
MonitorList == <<"www", "api">>

Monitors == {MonitorList[i] : i \in DOMAIN MonitorList}

Host == [www |-> "w.x", api |-> "api"]
URI  == [www |-> "", api |-> "/v"]

Alerts ==
    [www |-> <<"status_504 > 5", "rt_p95 > 1", "status_504 > 5">>,
     api |-> <<"status_504 > 5">>]

\* The compiled expression of each formula text: one comparison of a
\* variable with a constant.
Expression ==
    ("status_504 > 5" :> [var |-> "status_504", k |-> 5])
    @@ ("rt_p95 > 1" :> [var |-> "rt_p95", k |-> 1])

----------------------------------------------------------------------------
(* Metrics: tags are strings, fields are typed values *)

IntValue(v)    == [type |-> "int", num |-> v, str |-> ""]
FloatValue(v)  == [type |-> "float64", num |-> v, str |-> ""]
StringValue(v) == [type |-> "string", num |-> 0, str |-> v]
BoolValue(v)   == [type |-> "bool", num |-> 0, str |-> ""]

Tags(host, uri, status) == [host |-> host, uri |-> uri, status |-> status]

Without(fn, k) == [x \in DOMAIN fn \ {k} |-> fn[x]]

Fields(count, p95) == [rt_count |-> count, rt_p95 |-> p95]

Metric(tags, flds) == [tags |-> tags, fields |-> flds]

\* getMetric2 of the test: matches monitor www, status 504, rt_count 3
Metric504 == Metric(Tags("w.x", "/", "504"), Fields(IntValue(3), FloatValue(1)))
\* getMetric3 of the test: matches monitor www, status 204
Metric204 == Metric(Tags("w.x", "/", "204"), Fields(IntValue(10), FloatValue(2)))
\* getMetric1 of the test: its host matches no monitor
MetricOther == Metric(Tags("m.x", "/", "504"), Fields(IntValue(3), FloatValue(1)))
\* matches monitor api only
MetricApi == Metric(Tags("api", "/v1", "504"), Fields(IntValue(6), FloatValue(1)))
\* host matches api, uri does not
MetricApiRoot == Metric(Tags("api", "/", "504"), Fields(IntValue(6), FloatValue(1)))
\* records ProcessMetric rejects
MetricNoHost == Metric(Without(Tags("w.x", "/", "504"), "host"), Fields(IntValue(3), FloatValue(1)))
MetricNoURI == Metric(Without(Tags("m.x", "/", "504"), "uri"), Fields(IntValue(3), FloatValue(1)))
MetricNoStatus == Metric(Without(Tags("w.x", "/", "504"), "status"), Fields(IntValue(3), FloatValue(1)))
MetricOtherNoStatus == Metric(Without(Tags("m.x", "/", "504"), "status"), Fields(IntValue(3), FloatValue(1)))
MetricBadStatus == Metric(Tags("w.x", "/", "abc"), Fields(IntValue(3), FloatValue(1)))
MetricNoCount == Metric(Tags("w.x", "/", "504"), Without(Fields(IntValue(3), FloatValue(1)), "rt_count"))
MetricNoP95 == Metric(Tags("w.x", "/", "204"), Without(Fields(IntValue(3), FloatValue(1)), "rt_p95"))
MetricTextCount == Metric(Tags("w.x", "/", "504"), Fields(StringValue("abc"), FloatValue(1)))
MetricBoolP95 == Metric(Tags("w.x", "/", "204"), Fields(IntValue(3), BoolValue(TRUE)))
\* other well-formed records
Metric302 == Metric(Tags("w.x", "/", "302"), Fields(IntValue(3), FloatValue(2)))
Metric100 == Metric(Tags("w.x", "/", "100"), Fields(IntValue(3), FloatValue(2)))
Metric204Low == Metric(Tags("w.x", "/", "204"), Fields(IntValue(3), FloatValue(1)))
MetricStringCount == Metric(Tags("w.x", "/", "504"), Fields(StringValue("3"), FloatValue(1)))
MetricInfix == Metric(Tags("aw.xb", "/", "504"), Fields(IntValue(3), FloatValue(1)))
MetricDash == Metric(Tags("w-x", "/", "504"), Fields(IntValue(3), FloatValue(1)))

\* the records handed to Write
WriteMetrics == {Metric504, Metric204, MetricApi}

\* the records handed to Monitor.ProcessMetric
AllMetrics ==
    {Metric504, Metric204, MetricOther, MetricApi, MetricApiRoot,
     MetricNoHost, MetricNoURI, MetricNoStatus, MetricOtherNoStatus,
     MetricBadStatus, MetricNoCount, MetricNoP95, MetricTextCount,
     MetricBoolP95, Metric302, Metric100, Metric204Low, MetricStringCount,
     MetricInfix, MetricDash}

StatusTexts == {"204", "302", "504", "100", "abc"}

----------------------------------------------------------------------------
(* statsd.RunningStats, the streaming accumulator of one field *)

RECURSIVE Insert(_, _)
Insert(sorted, v) ==
    IF sorted = <<>> THEN <<v>>
    ELSE IF v <= Head(sorted) THEN <<v>> \o sorted
    ELSE <<Head(sorted)>> \o Insert(Tail(sorted), v)

NewRunningStats == [n |-> 0, sum |-> 0, perc |-> <<>>]

\* the samples are kept in ascending order (Percentile sorts them anyway)
AddValue(rs, v) ==
    [n |-> rs.n + 1, sum |-> rs.sum + v, perc |-> Insert(rs.perc, v)]

Sum(rs) == rs.sum

Clamp(i, lo, hi) == IF i < lo THEN lo ELSE IF i > hi THEN hi ELSE i

\* the value at index len*n/100 of the sorted samples
Percentile(rs, n) ==
    LET sorted == rs.perc
        i == (Len(sorted) * (IF n > 100 THEN 100 ELSE n)) \div 100
    IN sorted[Clamp(i, 0, Len(sorted) - 1) + 1]

----------------------------------------------------------------------------
(* Monitor: filtering and aggregation *)

getFloat(value) ==
    CASE value.type \in {"float64", "float32", "int64", "int32", "int",
                         "uint64", "uint32", "uint"} ->
              [err |-> Nil, v |-> value.num]
      [] value.type = "string" ->
              LET r == ParseNumber(value.str) IN
              [err |-> r.err, v |-> r.v]
      [] OTHER -> [err |-> "non-numeric", v |-> 0]

\* addField that adds 1 for every value instead of the value
addFieldUnit(flds, key, value) ==
    LET f == getFloat(value) IN
    IF f.err # Nil THEN [fields |-> flds, err |-> f.err]
    ELSE LET rs == IF key \in DOMAIN flds THEN flds[key] ELSE NewRunningStats
             nrs == AddValue(rs, 1)
         IN [fields |-> [k \in DOMAIN flds \cup {key} |->
                            IF k = key THEN nrs ELSE flds[k]],
             err |-> Nil]

\* m.fields after m.addField(key, value), and the error it returns
addField(flds, key, value) ==
    LET f == getFloat(value) IN
    IF f.err # Nil THEN [fields |-> flds, err |-> f.err]
    ELSE LET rs == IF key \in DOMAIN flds THEN flds[key] ELSE NewRunningStats
             nrs == AddValue(rs, f.v)
         IN [fields |-> [k \in DOMAIN flds \cup {key} |->
                            IF k = key THEN nrs ELSE flds[k]],
             err |-> Nil]

GetTag(metric, k) == [ok |-> k \in DOMAIN metric.tags,
                      v |-> IF k \in DOMAIN metric.tags THEN metric.tags[k] ELSE ""]

GetField(metric, k) == [ok |-> k \in DOMAIN metric.fields,
                        v |-> IF k \in DOMAIN metric.fields THEN metric.fields[k]
                              ELSE BoolValue(FALSE)]

\* ProcessMetric that skips a record only when host and uri both mismatch
ProcessMetricBothMismatch(m, flds, metric) ==
    LET host == GetTag(metric, "host")
        uri == GetTag(metric, "uri")
        status == GetTag(metric, "status")
        statusInt == ParseNumber(status.v)
        requestTime == GetField(metric, "rt_p95")
        requestCount == GetField(metric, "rt_count")
    IN
    IF ~host.ok THEN [fields |-> flds, err |-> "no host tag"]
    ELSE IF ~uri.ok THEN [fields |-> flds, err |-> "no uri tag"]
    ELSE IF ~MatchString(Host[m], host.v) /\ ~MatchString(URI[m], uri.v)
         THEN [fields |-> flds, err |-> Nil]
    ELSE IF ~status.ok THEN [fields |-> flds, err |-> "no status tag"]
    ELSE IF statusInt.err # Nil THEN [fields |-> flds, err |-> "status not numeric"]
    ELSE IF 200 <= statusInt.v /\ statusInt.v < 300
         THEN IF ~requestTime.ok THEN [fields |-> flds, err |-> "no rt_p95 field"]
              ELSE [fields |-> addField(flds, "rt_p95", requestTime.v).fields,
                    err |-> Nil]
    ELSE IF statusInt.v >= 400
         THEN IF ~requestCount.ok THEN [fields |-> flds, err |-> "no rt_count field"]
              ELSE [fields |-> addField(flds, "status_" \o status.v, requestCount.v).fields,
                    err |-> Nil]
    ELSE [fields |-> flds, err |-> Nil]

\* ProcessMetric whose first branch takes every status below 300
ProcessMetricBelow300(m, flds, metric) ==
    LET host == GetTag(metric, "host")
        uri == GetTag(metric, "uri")
        status == GetTag(metric, "status")
        statusInt == ParseNumber(status.v)
        requestTime == GetField(metric, "rt_p95")
        requestCount == GetField(metric, "rt_count")
    IN
    IF ~host.ok THEN [fields |-> flds, err |-> "no host tag"]
    ELSE IF ~uri.ok THEN [fields |-> flds, err |-> "no uri tag"]
    ELSE IF ~MatchString(Host[m], host.v) \/ ~MatchString(URI[m], uri.v)
         THEN [fields |-> flds, err |-> Nil]
    ELSE IF ~status.ok THEN [fields |-> flds, err |-> "no status tag"]
    ELSE IF statusInt.err # Nil THEN [fields |-> flds, err |-> "status not numeric"]
    ELSE IF statusInt.v < 300
         THEN IF ~requestTime.ok THEN [fields |-> flds, err |-> "no rt_p95 field"]
              ELSE [fields |-> addField(flds, "rt_p95", requestTime.v).fields,
                    err |-> Nil]
    ELSE IF statusInt.v >= 400
         THEN IF ~requestCount.ok THEN [fields |-> flds, err |-> "no rt_count field"]
              ELSE [fields |-> addField(flds, "status_" \o status.v, requestCount.v).fields,
                    err |-> Nil]
    ELSE [fields |-> flds, err |-> Nil]

\* ProcessMetric whose second branch takes every status from 300 on
ProcessMetricElse(m, flds, metric) ==
    LET host == GetTag(metric, "host")
        uri == GetTag(metric, "uri")
        status == GetTag(metric, "status")
        statusInt == ParseNumber(status.v)
        requestTime == GetField(metric, "rt_p95")
        requestCount == GetField(metric, "rt_count")
    IN
    IF ~host.ok THEN [fields |-> flds, err |-> "no host tag"]
    ELSE IF ~uri.ok THEN [fields |-> flds, err |-> "no uri tag"]
    ELSE IF ~MatchString(Host[m], host.v) \/ ~MatchString(URI[m], uri.v)
         THEN [fields |-> flds, err |-> Nil]
    ELSE IF ~status.ok THEN [fields |-> flds, err |-> "no status tag"]
    ELSE IF statusInt.err # Nil THEN [fields |-> flds, err |-> "status not numeric"]
    ELSE IF 200 <= statusInt.v /\ statusInt.v < 300
         THEN IF ~requestTime.ok THEN [fields |-> flds, err |-> "no rt_p95 field"]
              ELSE [fields |-> addField(flds, "rt_p95", requestTime.v).fields,
                    err |-> Nil]
    ELSE IF statusInt.v >= 300
         THEN IF ~requestCount.ok THEN [fields |-> flds, err |-> "no rt_count field"]
              ELSE [fields |-> addField(flds, "status_" \o status.v, requestCount.v).fields,
                    err |-> Nil]
    ELSE [fields |-> flds, err |-> Nil]

\* m.fields after m.ProcessMetric(metric), and the error it returns; the
\* error of addField is dropped by both branches.
ProcessMetric(m, flds, metric) ==
    LET host == GetTag(metric, "host")
        uri == GetTag(metric, "uri")
        status == GetTag(metric, "status")
        statusInt == ParseNumber(status.v)
        requestTime == GetField(metric, "rt_p95")
        requestCount == GetField(metric, "rt_count")
    IN
    IF ~host.ok THEN [fields |-> flds, err |-> "no host tag"]
    ELSE IF ~uri.ok THEN [fields |-> flds, err |-> "no uri tag"]
    ELSE IF ~MatchString(Host[m], host.v) \/ ~MatchString(URI[m], uri.v)
         THEN [fields |-> flds, err |-> Nil]
    ELSE IF ~status.ok THEN [fields |-> flds, err |-> "no status tag"]
    ELSE IF statusInt.err # Nil THEN [fields |-> flds, err |-> "status not numeric"]
    ELSE IF 200 <= statusInt.v /\ statusInt.v < 300
         THEN IF ~requestTime.ok THEN [fields |-> flds, err |-> "no rt_p95 field"]
              ELSE [fields |-> addField(flds, "rt_p95", requestTime.v).fields,
                    err |-> Nil]
    ELSE IF statusInt.v >= 400
         THEN IF ~requestCount.ok THEN [fields |-> flds, err |-> "no rt_count field"]
              ELSE [fields |-> addField(flds, "status_" \o status.v, requestCount.v).fields,
                    err |-> Nil]
    ELSE [fields |-> flds, err |-> Nil]

resetFields == << >>

----------------------------------------------------------------------------
(* Alert: formula evaluation and the consecutive-trigger count *)

\* a.expression.Vars()
ExprVars(formula) == {Expression[formula].var}

\* a.expression.Evaluate(params): an error when a variable has no parameter
ExprEvaluate(formula, ps) ==
    LET e == Expression[formula] IN
    IF e.var \notin DOMAIN ps THEN [err |-> "no parameter", result |-> FALSE]
    ELSE [err |-> Nil, result |-> ps[e.var] > e.k]

RECURSIVE Log1000(_)
Log1000(v) == IF v < 1000 THEN 0 ELSE 1 + Log1000(v \div 1000)

RECURSIVE Pow1000(_)
Pow1000(e) == IF e = 0 THEN 1 ELSE 1000 * Pow1000(e - 1)

\* the text printed for a value: the number itself below 1000, otherwise
\* tenths of the leading thousands group and a unit letter
shortenNumber(v) ==
    IF v < 1000 THEN [tenths |-> 10 * v, unit |-> ""]
    ELSE LET exp == Log1000(v) IN
         [tenths |-> (20 * v + Pow1000(exp)) \div (2 * Pow1000(exp)),
          unit |-> <<"k", "m", "g", "t", "p", "e">>[exp]]

\* Evaluate without the reset of Count in the not-triggered branch
EvaluateKeepCount(a, ps) ==
    LET bound == ExprVars(a.Formula) \cap DOMAIN ps
        s == [text |-> a.Formula,
              values |-> [v \in bound |-> shortenNumber(ps[v])]]
        r == ExprEvaluate(a.Formula, ps)
    IN [alert |-> [a EXCEPT !.Count = IF r.err # Nil \/ ~r.result THEN @ ELSE @ + 1],
        s |-> s]

\* Evaluate that counts a cycle whose expression returned an error
EvaluateErrorCounts(a, ps) ==
    LET bound == ExprVars(a.Formula) \cap DOMAIN ps
        s == [text |-> a.Formula,
              values |-> [v \in bound |-> shortenNumber(ps[v])]]
        r == ExprEvaluate(a.Formula, ps)
    IN [alert |-> [a EXCEPT !.Count = IF r.err = Nil /\ ~r.result THEN 0 ELSE @ + 1],
        s |-> s]

\* Evaluate that takes one off Count when the formula is not satisfied
EvaluateDecay(a, ps) ==
    LET bound == ExprVars(a.Formula) \cap DOMAIN ps
        s == [text |-> a.Formula,
              values |-> [v \in bound |-> shortenNumber(ps[v])]]
        r == ExprEvaluate(a.Formula, ps)
    IN [alert |-> [a EXCEPT !.Count = IF r.err # Nil \/ ~r.result
                                      THEN (IF @ > 0 THEN @ - 1 ELSE 0) ELSE @ + 1],
        s |-> s]

\* the alert after a.Evaluate(params), and the evaluated formula it returns:
\* the formula text with name(value) in place of every bound variable
Evaluate(a, ps) ==
    LET bound == ExprVars(a.Formula) \cap DOMAIN ps
        s == [text |-> a.Formula,
              values |-> [v \in bound |-> shortenNumber(ps[v])]]
        r == ExprEvaluate(a.Formula, ps)
    IN [alert |-> [a EXCEPT !.Count = IF r.err # Nil \/ ~r.result THEN 0 ELSE @ + 1],
        s |-> s]

----------------------------------------------------------------------------
(* Monitor: initialisation and the evaluation cycle *)

Range(s) == {s[i] : i \in DOMAIN s}

\* m.Init() that counts every further listing of a formula as a cycle
\* the formula was satisfied in
MonitorInitCounted(m) ==
    [f \in Range(Alerts[m]) |->
       [Formula |-> f, Threshold |-> defaultAlertThreshold,
        IsAlerting |-> FALSE,
        Count |-> Cardinality({i \in DOMAIN Alerts[m] : Alerts[m][i] = f}) - 1]]

\* m.alerts after m.Init(): one Alert per formula text
MonitorInit(m) ==
    [f \in Range(Alerts[m]) |->
       [Formula |-> f, Threshold |-> defaultAlertThreshold,
        IsAlerting |-> FALSE, Count |-> 0]]

\* the string a template renders: the fields of TemplateMessage it may use
\* (the time stamp is left out)
RenderTemplate(tpl, m, alert, evaluatedFormula) ==
    [tpl |-> tpl, Monitor |-> m, Formula |-> alert.Formula,
     Count |-> alert.Count, Threshold |-> alert.Threshold,
     EvaluatedFormula |-> evaluatedFormula]

HasPrefixStatus(field) == \E st \in StatusTexts : field = "status_" \o st

ContainsRt(field) == field \in {"rt_p95", "rt_count"}

\* the params map ShowAlerts builds from m.fields
BuildParams(flds) ==
    [field \in {k \in DOMAIN flds : HasPrefixStatus(k) \/ ContainsRt(k)} |->
       IF HasPrefixStatus(field) THEN Sum(flds[field])
       ELSE Percentile(flds[field], 80)]

\* StepAlert that renders the ALERT template only when the alert was not
\* alerting before
StepAlertOnce(m, alert, ps) ==
    LET ev == Evaluate(alert, ps)
        a == ev.alert
    IN IF a.Count >= a.Threshold
       THEN LET b == [a EXCEPT !.IsAlerting = TRUE] IN
            [alert |-> b,
             out |-> IF a.IsAlerting THEN <<>>
                     ELSE <<RenderTemplate("ALERT", m, b, ev.s)>>]
       ELSE IF a.IsAlerting
       THEN LET b == [a EXCEPT !.IsAlerting = FALSE] IN
            [alert |-> b, out |-> <<RenderTemplate("OK", m, b, ev.s)>>]
       ELSE [alert |-> a, out |-> <<>>]

\* StepAlert whose recovery branch leaves IsAlerting set
StepAlertStickyAlerting(m, alert, ps) ==
    LET ev == Evaluate(alert, ps)
        a == ev.alert
    IN IF a.Count >= a.Threshold
       THEN LET b == [a EXCEPT !.IsAlerting = TRUE] IN
            [alert |-> b, out |-> <<RenderTemplate("ALERT", m, b, ev.s)>>]
       ELSE IF a.IsAlerting
       THEN [alert |-> a, out |-> <<RenderTemplate("OK", m, a, ev.s)>>]
       ELSE [alert |-> a, out |-> <<>>]

\* StepAlert that compares Count > Threshold
StepAlertStrict(m, alert, ps) ==
    LET ev == Evaluate(alert, ps)
        a == ev.alert
    IN IF a.Count > a.Threshold
       THEN LET b == [a EXCEPT !.IsAlerting = TRUE] IN
            [alert |-> b, out |-> <<RenderTemplate("ALERT", m, b, ev.s)>>]
       ELSE IF a.IsAlerting
       THEN LET b == [a EXCEPT !.IsAlerting = FALSE] IN
            [alert |-> b, out |-> <<RenderTemplate("OK", m, b, ev.s)>>]
       ELSE [alert |-> a, out |-> <<>>]

\* one pass of the loop over m.alerts
StepAlert(m, alert, ps) ==
    LET ev == Evaluate(alert, ps)
        a == ev.alert
    IN IF a.Count >= a.Threshold
       THEN LET b == [a EXCEPT !.IsAlerting = TRUE] IN
            [alert |-> b, out |-> <<RenderTemplate("ALERT", m, b, ev.s)>>]
       ELSE IF a.IsAlerting
       THEN LET b == [a EXCEPT !.IsAlerting = FALSE] IN
            [alert |-> b, out |-> <<RenderTemplate("OK", m, b, ev.s)>>]
       ELSE [alert |-> a, out |-> <<>>]

\* the loop over m.alerts that stops at the first alert that has a message
RECURSIVE ShowAlertsLoopBreak(_, _, _, _, _)
ShowAlertsLoopBreak(m, als, ps, order, out) ==
    IF order = <<>> \/ out # <<>> THEN [alerts |-> als, outputs |-> out]
    ELSE LET st == StepAlert(m, als[Head(order)], ps) IN
         ShowAlertsLoopBreak(m, [als EXCEPT ![Head(order)] = st.alert], ps,
                             Tail(order), out \o st.out)

\* the loop of ShowAlerts over m.alerts, visited in the given order: every
\* pass updates its alert in place and may append one message to outputs
RECURSIVE ShowAlertsLoop(_, _, _, _, _)
ShowAlertsLoop(m, als, ps, order, out) ==
    IF order = <<>> THEN [alerts |-> als, outputs |-> out]
    ELSE LET st == StepAlert(m, als[Head(order)], ps) IN
         ShowAlertsLoop(m, [als EXCEPT ![Head(order)] = st.alert], ps,
                        Tail(order), out \o st.out)

\* ShowAlerts that resets the fields only when a message is returned
ShowAlertsKeepFields(m, flds, als, order) ==
    LET ps == BuildParams(flds)
        r == ShowAlertsLoop(m, als, ps, order, <<>>)
    IN [alerts |-> r.alerts,
        outputs |-> r.outputs,
        fields |-> IF r.outputs = <<>> THEN flds ELSE resetFields,
        params |-> ps]

\* m.ShowAlerts(template) with the map m.alerts ranged over in the given
\* order: the alerts and fields afterwards, the messages returned and the
\* params that were evaluated
ShowAlerts(m, flds, als, order) ==
    LET ps == BuildParams(flds) IN
    ShowAlertsLoop(m, als, ps, order, <<>>)
       @@ [fields |-> resetFields, params |-> ps]

\* the orders in which a range over a map with the keys ks may visit them,
\* for the key sets of the monitors
KeyOrders ==
    [ks \in {Range(Alerts[m]) : m \in Monitors} |->
       {o \in [1..Cardinality(ks) -> ks] :
           \A i, j \in DOMAIN o : i # j => o[i] # o[j]}]

\* the orders in which a range over m.alerts may visit the formulas
Orders(als) == KeyOrders[DOMAIN als]

\* whether the formula is satisfied by the params of a cycle
Triggered(formula, ps) ==
    LET r == ExprEvaluate(formula, ps) IN r.err = Nil /\ r.result

NextRun(m, ps) ==
    [f \in DOMAIN run[m] |-> IF Triggered(f, ps) THEN run[m][f] + 1 ELSE 0]

----------------------------------------------------------------------------
(* Skyline: Write and the delivery goroutines *)

RECURSIVE ProcessAllAbort(_, _, _)
\* ProcessAll that leaves the loop at the first record ProcessMetric rejects
ProcessAllAbort(m, flds, metrics) ==
    IF metrics = <<>> THEN flds
    ELSE LET r == ProcessMetric(m, flds, Head(metrics)) IN
         IF r.err # Nil THEN flds ELSE ProcessAllAbort(m, r.fields, Tail(metrics))

RECURSIVE ProcessAll(_, _, _)
\* m.fields after the loop of Write over the batch; errors are discarded
ProcessAll(m, flds, metrics) ==
    IF metrics = <<>> THEN flds
    ELSE ProcessAll(m, ProcessMetric(m, flds, Head(metrics)).fields, Tail(metrics))

RECURSIVE SeqToBag(_)
SeqToBag(s) == IF s = <<>> THEN EmptyBag ELSE SetToBag({Head(s)}) (+) SeqToBag(Tail(s))

Batches == UNION {[1..n -> WriteMetrics] : n \in 0..MaxBatch}

NoCall == [name |-> "Connect", monitor |-> "", arg |-> <<>>, err |-> Nil]

Init ==
    /\ fields = [m \in Monitors |-> resetFields]
    /\ alerts = [m \in Monitors |-> MonitorInit(m)]
    /\ inflight = EmptyBag
    /\ call = NoCall
    /\ outputs = [m \in Monitors |-> <<>>]
    /\ params = [m \in Monitors |-> << >>]
    /\ run = [m \in Monitors |-> [f \in Range(Alerts[m]) |-> 0]]

\* Spawned that starts goroutines for the first monitor only
SpawnedFirstMonitor(res) ==
    IF res = <<>> THEN <<>> ELSE Head(res).outputs

\* the messages of all monitors, in the order Write starts their goroutines
RECURSIVE Spawned(_)
Spawned(res) ==
    IF res = <<>> THEN <<>> ELSE Head(res).outputs \o Spawned(Tail(res))

\* the position of a monitor in s.Monitors
Index(m) == CHOOSE i \in DOMAIN MonitorList : MonitorList[i] = m

\* the inner loop of Write for the monitors ms in turn: the fields of each
\* after m.ProcessMetric of every record of the batch, errors ignored.
\* ProcessMetric and ShowAlerts touch the fields and alerts of their own
\* monitor only, so the folds are taken here for all monitors at once.
RECURSIVE FoldLoop(_, _)
FoldLoop(ms, metrics) ==
    IF ms = <<>> THEN <<>>
    ELSE <<ProcessAll(Head(ms), fields[Head(ms)], metrics)>> \o FoldLoop(Tail(ms), metrics)

\* WriteLoop that leaves out ShowAlerts for a monitor that folded nothing
RECURSIVE WriteLoopSkipIdle(_, _, _)
WriteLoopSkipIdle(ms, folded, order) ==
    IF ms = <<>> THEN <<>>
    ELSE <<IF DOMAIN folded[Index(Head(ms))] = {}
           THEN [alerts |-> alerts[Head(ms)], outputs |-> <<>>,
                 fields |-> resetFields, params |-> << >>]
           ELSE ShowAlerts(Head(ms), folded[Index(Head(ms))], alerts[Head(ms)],
                           order[Head(ms)])>>
            \o WriteLoopSkipIdle(Tail(ms), folded, order)

\* m.ShowAlerts for the monitors ms in turn on their folded fields, with
\* order[m] the order of its range over m.alerts
RECURSIVE WriteLoop(_, _, _)
WriteLoop(ms, folded, order) ==
    IF ms = <<>> THEN <<>>
    ELSE <<ShowAlerts(Head(ms), folded[Index(Head(ms))], alerts[Head(ms)], order[Head(ms)])>>
            \o WriteLoop(Tail(ms), folded, order)

\* the possible results of Write's outer loop
WriteResults(folded) ==
    {WriteLoop(MonitorList, folded, order) :
       order \in {o \in [Monitors -> UNION {Orders(alerts[m]) : m \in Monitors}] :
                     \A m \in Monitors : o[m] \in Orders(alerts[m])}}

\* the messages in flight if a goroutine read the Count of its message from
\* the Alert when it runs: each shows the Count the alerts als now hold
RECURSIVE Rerendered(_, _, _)
Rerendered(msgs, bag, als) ==
    IF msgs = {} THEN EmptyBag
    ELSE LET msg == CHOOSE x \in msgs : TRUE
             now == [msg EXCEPT !.Count = als[msg.Monitor][msg.Formula].Count]
         IN [y \in {now} |-> bag[msg]] (+) Rerendered(msgs \ {msg}, bag, als)

\* Write whose goroutines keep the Alert instead of the rendered string
WriteUpToShared(metrics, cap) ==
    \E folded \in {FoldLoop(MonitorList, metrics)} : \E res \in WriteResults(folded) :
      /\ \A m \in Monitors : \A f \in DOMAIN alerts[m] :
            res[Index(m)].alerts[f].Count <= MaxCount
      /\ inflight' = Rerendered(BagToSet(inflight), inflight,
                                [m \in Monitors |-> res[Index(m)].alerts])
                         (+) SeqToBag(Spawned(res))
      /\ BagCardinality(inflight') <= cap
      /\ fields' = [m \in Monitors |-> res[Index(m)].fields]
      /\ alerts' = [m \in Monitors |-> res[Index(m)].alerts]
      /\ outputs' = [m \in Monitors |-> res[Index(m)].outputs]
      /\ params' = [m \in Monitors |-> res[Index(m)].params]
      /\ run' = [m \in Monitors |-> NextRun(m, res[Index(m)].params)]
      /\ call' = [name |-> "Write", monitor |-> "", arg |-> metrics, err |-> Nil]

\* s.Write(metrics): every monitor folds the batch, runs its cycle and one
\* goroutine is started per message; taken while at most cap goroutines
\* are running afterwards
WriteUpTo(metrics, cap) ==
    \E folded \in {FoldLoop(MonitorList, metrics)} : \E res \in WriteResults(folded) :
      /\ \A m \in Monitors : \A f \in DOMAIN alerts[m] :
            res[Index(m)].alerts[f].Count <= MaxCount
      /\ inflight' = inflight (+) SeqToBag(Spawned(res))
      /\ BagCardinality(inflight') <= cap
      /\ fields' = [m \in Monitors |-> res[Index(m)].fields]
      /\ alerts' = [m \in Monitors |-> res[Index(m)].alerts]
      /\ outputs' = [m \in Monitors |-> res[Index(m)].outputs]
      /\ params' = [m \in Monitors |-> res[Index(m)].params]
      /\ run' = [m \in Monitors |-> NextRun(m, res[Index(m)].params)]
      /\ call' = [name |-> "Write", monitor |-> "", arg |-> metrics, err |-> Nil]

Write(metrics) == WriteUpTo(metrics, MaxInFlight)

\* write whose failure re-initialises the alerts of every monitor
writeFailureResets(reqBody) ==
    /\ BagIn(reqBody, inflight)
    /\ \E err \in {Nil, "request failed", "status code"} :
         /\ call' = [name |-> "write", monitor |-> "", arg |-> <<>>, err |-> err]
         /\ alerts' = IF err = Nil THEN alerts ELSE [m \in Monitors |-> MonitorInit(m)]
    /\ inflight' = inflight (-) SetToBag({reqBody})
    /\ UNCHANGED <<fields, outputs, params, run>>

\* write that posts the OK message of a rule only when no ALERT message of
\* the rule is in flight
writePostingInOrder(reqBody, posted) ==
    /\ BagIn(reqBody, inflight)
    /\ reqBody.tpl = "OK" =>
          \A msg \in BagToSet(inflight) :
             ~(msg.tpl = "ALERT" /\ msg.Monitor = reqBody.Monitor
                                /\ msg.Formula = reqBody.Formula)
    /\ \E err \in {Nil, "request failed", "status code"} :
         call' = [name |-> "write", monitor |-> "", arg |-> posted, err |-> err]
    /\ inflight' = inflight (-) SetToBag({reqBody})
    /\ UNCHANGED <<fields, alerts, outputs, params, run>>

\* write that stays in flight for another attempt when the request failed
writePostingRetry(reqBody, posted) ==
    /\ BagIn(reqBody, inflight)
    /\ \E err \in {Nil, "request failed", "status code"} :
         /\ call' = [name |-> "write", monitor |-> "", arg |-> posted, err |-> err]
         /\ inflight' = IF err = Nil THEN inflight (-) SetToBag({reqBody}) ELSE inflight
    /\ UNCHANGED <<fields, alerts, outputs, params, run>>

\* one goroutine runs s.write(reqBody) to its end; its error goes nowhere.
\* posted is what the record of the call keeps of the body of the request
writePosting(reqBody, posted) ==
    /\ BagIn(reqBody, inflight)
    /\ \E err \in {Nil, "request failed", "status code"} :
         call' = [name |-> "write", monitor |-> "", arg |-> posted, err |-> err]
    /\ inflight' = inflight (-) SetToBag({reqBody})
    /\ UNCHANGED <<fields, alerts, outputs, params, run>>

write(reqBody) == writePosting(reqBody, <<>>)

RECURSIVE SumN(_, _)
SumN(flds, keys) ==
    IF keys = {} THEN 0
    ELSE LET k == CHOOSE x \in keys : TRUE IN flds[k].n + SumN(flds, keys \ {k})

\* the number of values held by the accumulators of one monitor
Folded(flds) == SumN(flds, DOMAIN flds)

\* a direct call of m.ProcessMetric(metric), taken while the monitor holds
\* at most bound values afterwards
CallProcessMetricUpTo(m, metric, bound) ==
    \E res \in {ProcessMetric(m, fields[m], metric)} :
    /\ Folded(res.fields) <= bound
    /\ fields' = [fields EXCEPT ![m] = res.fields]
    /\ call' = [name |-> "ProcessMetric", monitor |-> m, arg |-> <<metric>>, err |-> res.err]
    /\ UNCHANGED <<alerts, inflight, outputs, params, run>>

CallProcessMetric(m, metric) == CallProcessMetricUpTo(m, metric, MaxFold)

\* a direct call of m.ShowAlerts(template)
CallShowAlerts(m) ==
    \E res \in {ShowAlerts(m, fields[m], alerts[m], order) : order \in Orders(alerts[m])} :
      /\ \A f \in DOMAIN alerts[m] : res.alerts[f].Count <= MaxDirect
      /\ fields' = [fields EXCEPT ![m] = res.fields]
      /\ alerts' = [alerts EXCEPT ![m] = res.alerts]
      /\ outputs' = [outputs EXCEPT ![m] = res.outputs]
      /\ params' = [params EXCEPT ![m] = res.params]
      /\ run' = [run EXCEPT ![m] = NextRun(m, res.params)]
      /\ call' = [name |-> "ShowAlerts", monitor |-> m, arg |-> <<>>, err |-> Nil]
      /\ UNCHANGED inflight

Next ==
    \/ \E metrics \in Batches : Write(metrics)
    \/ \E reqBody \in BagToSet(inflight) : write(reqBody)

Spec == Init /\ [][Next]_vars

NextMonitor ==
    \/ \E m \in Monitors, metric \in AllMetrics : CallProcessMetric(m, metric)
    \/ \E m \in Monitors : CallShowAlerts(m)

SpecMonitor == Init /\ [][NextMonitor]_vars

\* direct calls with the two well-formed records of the test, enough of
\* them in one cycle for both rules of www to trigger
RuleMetrics == {Metric504, Metric204}

NextRules ==
    \/ \E m \in Monitors, metric \in RuleMetrics :
          CallProcessMetricUpTo(m, metric, MaxFoldRules)
    \/ \E m \in Monitors : CallShowAlerts(m)

SpecRules == Init /\ [][NextRules]_vars

\* Write and write with more goroutines running at a time, over batches of
\* the 504 record of the test; the call keeps the body posted
DeliveryBatches == UNION {[1..n -> {Metric504}] : n \in 0..MaxBatch}

NextDelivery ==
    \/ \E metrics \in DeliveryBatches : WriteUpTo(metrics, MaxPending)
    \/ \E reqBody \in BagToSet(inflight) : writePosting(reqBody, <<reqBody>>)

SpecDelivery == Init /\ [][NextDelivery]_vars

\* Write cycles over batches of the 204 record of the test, with direct
\* ProcessMetric calls of its two well-formed records between them
CycleBatches == UNION {[1..n -> {Metric204}] : n \in 0..MaxBatch}

NextCycle ==
    \/ \E m \in Monitors, metric \in RuleMetrics : CallProcessMetric(m, metric)
    \/ \E metrics \in CycleBatches : Write(metrics)
    \/ \E reqBody \in BagToSet(inflight) : write(reqBody)

SpecCycle == Init /\ [][NextCycle]_vars

\* batches in which most records are ones ProcessMetric rejects
FaultyMetrics ==
    {Metric204, MetricNoHost, MetricBadStatus, MetricTextCount, MetricNoCount}

FaultyBatches == UNION {[1..n -> FaultyMetrics] : n \in 0..MaxBatch}

NextFaulty ==
    \/ \E metrics \in FaultyBatches : Write(metrics)
    \/ \E reqBody \in BagToSet(inflight) : write(reqBody)

SpecFaulty == Init /\ [][NextFaulty]_vars

----------------------------------------------------------------------------
(* Vocabulary of the properties *)

Rules(m) == Range(Alerts[m])

\* the number of messages of one template a cycle returned for a formula
CountMsgs(out, f, tpl) ==
    Cardinality({i \in DOMAIN out : out[i].Formula = f /\ out[i].tpl = tpl})

NoMsgs(out, f) == \A i \in DOMAIN out : out[i].Formula # f

----------------------------------------------------------------------------
(* Hysteresis of a rule over Write cycles *)

C2_AlertOncePerEpisode ==
    [][\A m \in Monitors : \A f \in Rules(m) :
         (call'.name = "Write" /\ alerts[m][f].IsAlerting /\ alerts'[m][f].IsAlerting)
            => CountMsgs(outputs'[m], f, "ALERT") = 0]_vars

\* C2 as amended: a rule flips from OK to ALERTING only on the Threshold-th
\* cycle of a run, that cycle produces one ALERT message, and every later
\* cycle in which the rule stays ALERTING produces one more ALERT message
\* with the count one higher; a cycle that leaves the rule OK produces none.
C2_AlertEveryAlertingCycle ==
    [][\A m \in Monitors : \A f \in Rules(m) :
         call'.name = "Write" =>
           /\ (~alerts[m][f].IsAlerting /\ alerts'[m][f].IsAlerting)
                 => /\ run'[m][f] = alerts'[m][f].Threshold
                    /\ CountMsgs(outputs'[m], f, "ALERT") = 1
           /\ (alerts[m][f].IsAlerting /\ alerts'[m][f].IsAlerting)
                 => /\ CountMsgs(outputs'[m], f, "ALERT") = 1
                    /\ \E i \in DOMAIN outputs'[m] :
                          /\ outputs'[m][i].Formula = f
                          /\ outputs'[m][i].Count = alerts[m][f].Count + 1
           /\ ~alerts'[m][f].IsAlerting
                 => CountMsgs(outputs'[m], f, "ALERT") = 0]_vars

C2_Witness ==
    /\ call.name = "Write"
    /\ \E m \in Monitors : \E f \in Rules(m) :
          /\ alerts[m][f].IsAlerting
          /\ run[m][f] > alerts[m][f].Threshold
          /\ CountMsgs(outputs[m], f, "ALERT") = 1

\* C3: a cycle produces one OK message for a rule that entered it ALERTING
\* and did not trigger, and the rule is OK afterwards; it produces no OK
\* message for a rule in any other case, in particular for none that
\* entered the cycle OK.
C3_RecoveryOnce ==
    [][\A m \in Monitors : \A f \in Rules(m) :
         call'.name = "Write" =>
           /\ (alerts[m][f].IsAlerting /\ run'[m][f] = 0)
                 => /\ ~alerts'[m][f].IsAlerting
                    /\ CountMsgs(outputs'[m], f, "OK") = 1
           /\ ~(alerts[m][f].IsAlerting /\ run'[m][f] = 0)
                 => CountMsgs(outputs'[m], f, "OK") = 0]_vars

C3_Witness ==
    /\ call.name = "Write"
    /\ \E m \in Monitors : \E f \in Rules(m) :
          /\ ~alerts[m][f].IsAlerting
          /\ run[m][f] = 0
          /\ CountMsgs(outputs[m], f, "OK") = 1
          /\ CountMsgs(outputs[m], f, "ALERT") = 0

C5_AlertCarriesCount ==
    [][\A m \in Monitors : \A f \in Rules(m) :
         (call'.name = "Write" /\ alerts'[m][f].Count >= alerts'[m][f].Threshold) =>
            \E i \in DOMAIN outputs'[m] :
               /\ outputs'[m][i].tpl = "ALERT"
               /\ outputs'[m][i].Formula = f
               /\ outputs'[m][i].Count = alerts'[m][f].Count
               /\ outputs'[m][i].Threshold = alerts'[m][f].Threshold
               /\ CopiesIn(outputs'[m][i], inflight')
                     > CopiesIn(outputs'[m][i], inflight)]_vars

C5_Witness ==
    /\ call.name = "Write"
    /\ \E m \in Monitors : \E f \in Rules(m) :
          /\ alerts[m][f].Count = defaultAlertThreshold + 1
          /\ \E i \in DOMAIN outputs[m] :
                /\ outputs[m][i].tpl = "ALERT"
                /\ outputs[m][i].Formula = f
                /\ outputs[m][i].Count = defaultAlertThreshold + 1
                /\ outputs[m][i].Threshold = defaultAlertThreshold
                /\ BagIn(outputs[m][i], inflight)

----------------------------------------------------------------------------
(* Accumulators: reset and filtering *)

HasTags(metric) == {"host", "uri"} \subseteq DOMAIN metric.tags

\* host and uri are present and one of them does not match the monitor
\* the records of the model that have both tags and fail a pattern of m
UnmatchedBy ==
    [m \in Monitors |->
       {metric \in AllMetrics :
          /\ HasTags(metric)
          /\ \/ ~MatchString(Host[m], metric.tags["host"])
             \/ ~MatchString(URI[m], metric.tags["uri"])}]

Unmatched(m, metric) == metric \in UnmatchedBy[m]

\* the records of the model that have both tags and pass both patterns of m
MatchedBy ==
    [m \in Monitors |->
       {metric \in AllMetrics :
          /\ HasTags(metric)
          /\ MatchString(Host[m], metric.tags["host"])
          /\ MatchString(URI[m], metric.tags["uri"])}]

Matches(m, metric) == metric \in MatchedBy[m]

StatusIn(metric, lo, hi) ==
    /\ "status" \in DOMAIN metric.tags
    /\ ParseNumber(metric.tags["status"]).err = Nil
    /\ lo <= ParseNumber(metric.tags["status"]).v
    /\ ParseNumber(metric.tags["status"]).v < hi

\* C6: every ShowAlerts call leaves the monitor's fields empty, and a
\* ShowAlerts call that directly follows another one on the same monitor
\* evaluates empty params.
C6_FieldsCleared ==
    [][\A m \in Monitors :
         (call'.name = "ShowAlerts" /\ call'.monitor = m) =>
           /\ DOMAIN fields'[m] = {}
           /\ (call.name = "ShowAlerts" /\ call.monitor = m)
                 => DOMAIN params'[m] = {}]_vars

C6_Witness ==
    /\ call.name = "ShowAlerts"
    /\ DOMAIN fields[call.monitor] = {}
    /\ DOMAIN params[call.monitor] # {}
    /\ outputs[call.monitor] = <<>>

C8_RedirectNotFolded ==
    [][\A m \in Monitors :
         (/\ call'.name = "ProcessMetric"
          /\ call'.monitor = m
          /\ Matches(m, call'.arg[1])
          /\ StatusIn(call'.arg[1], 300, 400))
            => /\ fields' = fields
               /\ call'.err = Nil]_vars

C8_Witness ==
    /\ call.name = "ProcessMetric"
    /\ Matches(call.monitor, call.arg[1])
    /\ StatusIn(call.arg[1], 300, 400)
    /\ {"rt_p95", "rt_count"} \subseteq DOMAIN call.arg[1].fields
    /\ call.err = Nil
    /\ DOMAIN fields[call.monitor] # {}

----------------------------------------------------------------------------
(* Cycles without records, and batches with rejected records *)

\* C9 as stated: a Write with an empty batch that follows an earlier Write
\* (ShowAlerts twice with no ProcessMetric in between) returns no message.
C9_SecondCallSilent ==
    [][(call.name # "Connect" /\ call'.name = "Write" /\ call'.arg = <<>>)
          => \A m \in Monitors : outputs'[m] = <<>>]_vars

\* C9 as amended: such a second ShowAlerts returns no ALERT message, one OK
\* message for every rule the first call left ALERTING and no message for
\* any other rule.
C9_SecondCallOnlyRecovers ==
    [][(call.name # "Connect" /\ call'.name = "Write" /\ call'.arg = <<>>)
          => \A m \in Monitors : \A f \in Rules(m) :
                /\ CountMsgs(outputs'[m], f, "ALERT") = 0
                /\ CountMsgs(outputs'[m], f, "OK")
                      = IF alerts[m][f].IsAlerting THEN 1 ELSE 0]_vars

C9_Witness ==
    /\ call.name = "Write"
    /\ call.arg = <<>>
    /\ \E m \in Monitors : \E f \in Rules(m) :
          /\ CountMsgs(outputs[m], f, "OK") = 1
          /\ ~alerts[m][f].IsAlerting
    /\ \E m \in Monitors : \E f \in Rules(m) : NoMsgs(outputs[m], f)

\* the field a matching record would fold is present and not a number
NonNumericField(metric) ==
    \/ /\ StatusIn(metric, 200, 300)
       /\ "rt_p95" \in DOMAIN metric.fields
       /\ getFloat(metric.fields["rt_p95"]).err # Nil
    \/ /\ "status" \in DOMAIN metric.tags
       /\ ParseNumber(metric.tags["status"]).err = Nil
       /\ ParseNumber(metric.tags["status"]).v >= 400
       /\ "rt_count" \in DOMAIN metric.fields
       /\ getFloat(metric.fields["rt_count"]).err # Nil

\* the records of the model that fail in ProcessMetric of monitor m
FailingIn ==
    [m \in Monitors |->
       {metric \in AllMetrics :
          \/ ProcessMetric(m, resetFields, metric).err # Nil
          \/ Matches(m, metric) /\ NonNumericField(metric)}]

Fails(m, metric) == metric \in FailingIn[m]

RECURSIVE WithoutFailing(_, _)
WithoutFailing(m, metrics) ==
    IF metrics = <<>> THEN <<>>
    ELSE (IF Fails(m, Head(metrics)) THEN <<>> ELSE <<Head(metrics)>>)
            \o WithoutFailing(m, Tail(metrics))

\* C10: Write returns nil, and every monitor evaluates the params, and ends
\* with the alerts, that the batch without its failing records gives.
C10_BadRecordIgnored ==
    [][call'.name = "Write" =>
         /\ call'.err = Nil
         /\ \A m \in Monitors :
               \A ps \in {BuildParams(ProcessAll(m, fields[m],
                                                  WithoutFailing(m, call'.arg)))} :
                  /\ params'[m] = ps
                  /\ alerts'[m] = [f \in Rules(m) |-> StepAlert(m, alerts[m][f], ps).alert]
                  /\ DOMAIN fields'[m] = {}]_vars

C10_Witness ==
    /\ call.name = "Write"
    /\ Len(call.arg) >= 2
    /\ Fails("www", call.arg[1])
    /\ ~Fails("www", call.arg[2])
    /\ DOMAIN params["www"] # {}
    /\ outputs["www"] # <<>>

----------------------------------------------------------------------------
(* Dispatch of the messages *)

\* the messages the monitors ms returned in a cycle, in the order of ms
RECURSIVE AllOutputs(_, _)
AllOutputs(ms, out) ==
    IF ms = <<>> THEN <<>> ELSE out[Head(ms)] \o AllOutputs(Tail(ms), out)

\* C11: a Write step returns nil and adds one goroutine per message of the
\* cycle to those still in flight, ending none of them; a write step ends
\* one goroutine and, whatever its error, leaves fields and alerts alone.
C11_FireAndForget ==
    [][/\ call'.name = "Write" =>
            /\ call'.err = Nil
            /\ inflight' = inflight (+) SeqToBag(AllOutputs(MonitorList, outputs'))
       /\ call'.name = "write" =>
            /\ fields' = fields
            /\ alerts' = alerts
            /\ BagCardinality(inflight') = BagCardinality(inflight) - 1]_vars

\* a goroutine failed after Write returned nil, and the rule it reported
\* is still ALERTING with its count
C11_Witness ==
    /\ call.name = "write"
    /\ call.err # Nil
    /\ inflight = EmptyBag
    /\ \E m \in Monitors : \E f \in Rules(m) :
          /\ alerts[m][f].IsAlerting
          /\ alerts[m][f].Count >= alerts[m][f].Threshold
          /\ CountMsgs(outputs[m], f, "ALERT") = 1

\* C12: in every Write, a monitor that no record of the batch matches (the
\* empty batch included) still runs its cycle, on empty params: every rule
\* of it ends OK with Count 0, and a rule that was ALERTING gets exactly one
\* OK message, for which a goroutine is started.
C12_IdleCycleRecovers ==
    [][\A m \in Monitors :
         (/\ call'.name = "Write"
          /\ \A i \in DOMAIN call'.arg : ~Matches(m, call'.arg[i]))
            => /\ DOMAIN params'[m] = {}
               /\ DOMAIN fields'[m] = {}
               /\ \A f \in Rules(m) :
                     /\ alerts'[m][f].Count = 0
                     /\ ~alerts'[m][f].IsAlerting
                     /\ CountMsgs(outputs'[m], f, "ALERT") = 0
                     /\ CountMsgs(outputs'[m], f, "OK")
                           = IF alerts[m][f].IsAlerting THEN 1 ELSE 0
                     /\ \A i \in DOMAIN outputs'[m] :
                           outputs'[m][i].Formula = f =>
                              CopiesIn(outputs'[m][i], inflight')
                                 > CopiesIn(outputs'[m][i], inflight)]_vars

\* a batch of records of another monitor made an ALERTING rule recover
C12_Witness ==
    /\ call.name = "Write"
    /\ call.arg # <<>>
    /\ \E m \in Monitors :
          /\ \A i \in DOMAIN call.arg : ~Matches(m, call.arg[i])
          /\ \E f \in Rules(m) : \E i \in DOMAIN outputs[m] :
                /\ outputs[m][i].tpl = "OK"
                /\ outputs[m][i].Formula = f
                /\ BagIn(outputs[m][i], inflight)
                /\ ~alerts[m][f].IsAlerting

----------------------------------------------------------------------------
(* Errors of evaluation and of ProcessMetric *)

\* C13: a rule whose expression returns an error on the params of a cycle
\* ends the cycle with Count 0 and without an ALERT message, and Write
\* returns nil.
C13_EvalErrorNotTriggered ==
    [][\A m \in Monitors : \A f \in Rules(m) :
         (call'.name = "Write" /\ ExprEvaluate(f, params'[m]).err # Nil)
            => /\ alerts'[m][f].Count = 0
               /\ ~alerts'[m][f].IsAlerting
               /\ CountMsgs(outputs'[m], f, "ALERT") = 0
               /\ call'.err = Nil]_vars

\* the params bind another variable but not the one of an ALERTING rule,
\* which recovered
C13_Witness ==
    /\ call.name = "Write"
    /\ \E m \in Monitors : \E f \in Rules(m) :
          /\ DOMAIN params[m] # {}
          /\ ExprEvaluate(f, params[m]).err # Nil
          /\ alerts[m][f].Count = 0
          /\ CountMsgs(outputs[m], f, "OK") = 1

\* the errors ProcessMetric returns for an absent tag
MissingTagErrors == {"no host tag", "no uri tag", "no status tag"}

\* C14: ProcessMetric on a record that lacks one of the tags host, uri and
\* status returns a missing-tag error, whether or not the record matches
\* the monitor.
C14_MissingTagAlwaysFails ==
    [][(/\ call'.name = "ProcessMetric"
        /\ ~({"host", "uri", "status"} \subseteq DOMAIN call'.arg[1].tags))
          => call'.err \in MissingTagErrors]_vars

\* C15: ProcessMetric on a matching record whose required field (rt_p95
\* for a status in [200, 300), rt_count for a status from 400 on) is present
\* and is neither a number nor a numeric string returns an error.
C15_NonNumericSurfaced ==
    [][\A m \in Monitors :
         (/\ call'.name = "ProcessMetric"
          /\ call'.monitor = m
          /\ Matches(m, call'.arg[1])
          /\ NonNumericField(call'.arg[1]))
            => call'.err # Nil]_vars

----------------------------------------------------------------------------
(* What the params of a cycle are made of *)

\* the record counts for status_<st> of monitor m: it matches, carries the
\* status text st, st is a number from 400 on and rt_count is numeric
CountsFor(m, metric, st) ==
    /\ "status" \in DOMAIN metric.tags
    /\ metric.tags["status"] = st
    /\ ParseNumber(st).err = Nil
    /\ ParseNumber(st).v >= 400
    /\ "rt_count" \in DOMAIN metric.fields
    /\ getFloat(metric.fields["rt_count"]).err = Nil
    /\ Matches(m, metric)

\* the records of the model that count for status_<st> of monitor m
Counting ==
    [m \in Monitors |->
       [st \in StatusTexts |-> {metric \in AllMetrics : CountsFor(m, metric, st)}]]

\* the sum of the rt_count values of the records of a batch that count
RECURSIVE BatchSum(_, _, _)
BatchSum(m, metrics, st) ==
    IF metrics = <<>> THEN 0
    ELSE (IF Head(metrics) \in Counting[m][st]
          THEN getFloat(Head(metrics).fields["rt_count"]).v ELSE 0)
         + BatchSum(m, Tail(metrics), st)

\* C16: in every Write, status_<st> is bound for a monitor exactly when a
\* record of this batch counts for it, its value is the sum of the rt_count
\* values of those records, and the rule over it is evaluated on that sum.
C16_StatusSum ==
    [][call'.name = "Write" =>
         \A m \in Monitors : \A st \in StatusTexts :
            /\ ("status_" \o st) \in DOMAIN params'[m]
                  <=> \E i \in DOMAIN call'.arg : call'.arg[i] \in Counting[m][st]
            /\ ("status_" \o st) \in DOMAIN params'[m]
                  => /\ params'[m]["status_" \o st] = BatchSum(m, call'.arg, st)
                     /\ \A f \in Rules(m) :
                           Expression[f].var = "status_" \o st
                              => (alerts'[m][f].Count > 0
                                    <=> BatchSum(m, call'.arg, st) > Expression[f].k)]_vars

\* the second cycle in a row with two records of rt_count 3: the sum is 6
C16_Witness ==
    /\ call.name = "Write"
    /\ call.arg = <<Metric504, Metric504>>
    /\ params["www"]["status_504"] = 6
    /\ alerts["www"]["status_504 > 5"].Count = 2

----------------------------------------------------------------------------
(* Matching of host and uri *)

\* the pattern matches the whole of the characters cs
FullMatch(pat, cs) ==
    /\ Len(Chars[pat]) = Len(cs)
    /\ \A j \in 1..Len(cs) : Chars[pat][j] = "." \/ Chars[pat][j] = cs[j]

\* the pattern matches the whole of some substring of s
ContainsMatch(pat, s) ==
    \E i \in 1..(Len(Chars[s]) + 1) : \E j \in (i - 1)..Len(Chars[s]) :
       FullMatch(pat, SubSeq(Chars[s], i, j))

\* the strings of the model in which the host pattern, and the uri pattern,
\* of a monitor matches some substring
HostFound == [m \in Monitors |-> {s \in DOMAIN Chars : ContainsMatch(Host[m], s)}]

URIFound == [m \in Monitors |-> {s \in DOMAIN Chars : ContainsMatch(URI[m], s)}]

\* the record has what ProcessMetric folds once it matches
Foldable(metric) ==
    \/ /\ StatusIn(metric, 200, 300)
       /\ "rt_p95" \in DOMAIN metric.fields
       /\ getFloat(metric.fields["rt_p95"]).err = Nil
    \/ /\ "status" \in DOMAIN metric.tags
       /\ ParseNumber(metric.tags["status"]).err = Nil
       /\ ParseNumber(metric.tags["status"]).v >= 400
       /\ "rt_count" \in DOMAIN metric.fields
       /\ getFloat(metric.fields["rt_count"]).err = Nil

\* C17 as stated: ProcessMetric folds a record only if the whole host tag
\* matches the host pattern and the whole uri tag matches the uri pattern.
C17_FullStringMatch ==
    [][\A m \in Monitors :
         (/\ call'.name = "ProcessMetric"
          /\ call'.monitor = m
          /\ fields'[m] # fields[m])
            => /\ FullMatch(Host[m], Chars[call'.arg[1].tags["host"]])
               /\ FullMatch(URI[m], Chars[call'.arg[1].tags["uri"]])]_vars

\* C17 as amended: ProcessMetric folds a record only if some substring of
\* the host tag matches the host pattern and some substring of the uri tag
\* matches the uri pattern, and it folds every foldable record for which
\* both hold, also when host or uri has more characters around the match.
C17_SubstringMatch ==
    [][\A m \in Monitors :
         (/\ call'.name = "ProcessMetric"
          /\ call'.monitor = m
          /\ HasTags(call'.arg[1]))
            => /\ fields'[m] # fields[m]
                     => /\ call'.arg[1].tags["host"] \in HostFound[m]
                        /\ call'.arg[1].tags["uri"] \in URIFound[m]
               /\ (/\ call'.arg[1].tags["host"] \in HostFound[m]
                   /\ call'.arg[1].tags["uri"] \in URIFound[m]
                   /\ Foldable(call'.arg[1]))
                     => fields'[m] # fields[m]]_vars

\* a record whose host has characters before and after the match was folded
C17_Witness ==
    /\ call.name = "ProcessMetric"
    /\ call.err = Nil
    /\ ~FullMatch(Host[call.monitor], Chars[call.arg[1].tags["host"]])
    /\ call.arg[1].tags["host"] \in HostFound[call.monitor]
    /\ DOMAIN fields[call.monitor] # {}

----------------------------------------------------------------------------
(* Independence of the rules of one monitor *)

\* C18: the rules of a monitor are independent and the order in which a
\* cycle visits them is irrelevant: whatever order the range over m.alerts
\* takes, a ShowAlerts call leaves every rule in the same state and returns
\* the same messages (as a collection), and the state a rule is left in is
\* the one its own step gives from the params and its own previous state
C18_OrderIrrelevant ==
    [][\A m \in Monitors :
         (call'.name = "ShowAlerts" /\ call'.monitor = m) =>
           /\ \A o \in Orders(alerts[m]) :
                LET r == ShowAlerts(m, fields[m], alerts[m], o) IN
                /\ r.alerts = alerts'[m]
                /\ SeqToBag(r.outputs) = SeqToBag(outputs'[m])
                /\ Range(r.outputs) = Range(outputs'[m])
           /\ \A f \in DOMAIN alerts[m] :
                alerts'[m][f] = StepAlert(m, alerts[m][f], BuildParams(fields[m])).alert]_vars

\* a cycle of www in which both rules had a message, the one of the
\* response-time rule returned first
C18_Witness ==
    /\ call.name = "ShowAlerts"
    /\ call.monitor = "www"
    /\ Len(outputs["www"]) = 2
    /\ outputs["www"][1].Formula = "rt_p95 > 1"
    /\ outputs["www"][2].Formula = "status_504 > 5"

----------------------------------------------------------------------------
(* Formulas listed more than once *)

\* how often the configuration of the monitor lists the formula
Listed(m, f) == Cardinality({i \in DOMAIN Alerts[m] : Alerts[m][i] = f})

\* C19: duplicate formulas collapse to one rule keyed by the formula text:
\* after initialisation a monitor holds one rule per distinct formula, OK,
\* with Count 0 and Threshold 2; the rules stay those, and in every cycle a
\* formula, however often listed, gets at most one message and its Count
\* advances by at most 1
C19_DuplicatesCollapse ==
    /\ \A m \in Monitors :
          /\ DOMAIN alerts[m] = {Alerts[m][i] : i \in DOMAIN Alerts[m]}
          /\ \A f \in DOMAIN alerts[m] :
                alerts[m][f] = [Formula |-> f, Threshold |-> 2,
                                IsAlerting |-> FALSE, Count |-> 0]
    /\ [][\A m \in Monitors :
            /\ DOMAIN alerts'[m] = {Alerts[m][i] : i \in DOMAIN Alerts[m]}
            /\ \A f \in DOMAIN alerts'[m] :
                  /\ alerts'[m][f].Formula = f
                  /\ alerts'[m][f].Threshold = 2
                  /\ alerts'[m][f].Count <= alerts[m][f].Count + 1
                  /\ call'.name = "Write" =>
                        Cardinality({i \in DOMAIN outputs'[m] :
                                        outputs'[m][i].Formula = f}) <= 1]_vars

\* a formula that www lists twice was satisfied in two cycles: its one rule
\* has Count 2 and the second cycle returned one message for it
C19_Witness ==
    /\ call.name = "Write"
    /\ \E f \in DOMAIN alerts["www"] :
          /\ Listed("www", f) = 2
          /\ Cardinality(DOMAIN alerts["www"]) < Len(Alerts["www"])
          /\ alerts["www"][f].Count = 2
          /\ alerts["www"][f].IsAlerting
          /\ Cardinality({i \in DOMAIN outputs["www"] :
                            outputs["www"][i].Formula = f}) = 1

----------------------------------------------------------------------------
(* What a goroutine posts *)

\* C20: the goroutines share no mutable state with the monitors: a Write
\* leaves every message already in flight as it was rendered and adds the
\* messages its own cycles rendered, and a goroutine posts one of the
\* messages in flight, unchanged, whatever Writes have changed the rule's
\* Count, its alerting state or the fields since the message was rendered
C20_PayloadAsRendered ==
    [][/\ call'.name = "Write" =>
            /\ \A msg \in BagToSet(inflight) :
                  CopiesIn(msg, inflight') >= CopiesIn(msg, inflight)
            /\ inflight' = inflight (+) SeqToBag(AllOutputs(MonitorList, outputs'))
       /\ call'.name = "write" =>
            /\ Len(call'.arg) = 1
            /\ BagIn(call'.arg[1], inflight)
            /\ inflight' = inflight (-) SetToBag({call'.arg[1]})
            /\ fields' = fields
            /\ alerts' = alerts]_vars

\* a goroutine has posted an ALERT message while its rule, through later
\* Writes, is OK again and holds another Count than the message shows
C20_Witness ==
    /\ call.name = "write"
    /\ Len(call.arg) = 1
    /\ call.arg[1].tpl = "ALERT"
    /\ call.arg[1].Count >= call.arg[1].Threshold
    /\ ~alerts[call.arg[1].Monitor][call.arg[1].Formula].IsAlerting
    /\ alerts[call.arg[1].Monitor][call.arg[1].Formula].Count # call.arg[1].Count

----------------------------------------------------------------------------
(* Where the state of a rule advances *)

\* the number of records of a batch that monitor m folds into the variable
\* of its rule f
RECURSIVE FoldedFor(_, _, _)
FoldedFor(m, f, metrics) ==
    IF metrics = <<>> THEN 0
    ELSE (IF DOMAIN ProcessMetric(m, resetFields, Head(metrics)).fields
                = {Expression[f].var}
          THEN 1 ELSE 0) + FoldedFor(m, f, Tail(metrics))

\* C21: the state of a rule advances at the end of a cycle only: a
\* ProcessMetric call changes no Count and no alerting state, and a Write
\* leaves every rule's Count one higher when its formula is satisfied by the
\* params of the cycle and at 0 when it is not, however many records of
\* the batch went into the variable of the formula
C21_AdvancesPerCycle ==
    [][/\ call'.name = "ProcessMetric" => alerts' = alerts
       /\ call'.name = "Write" =>
            \A m \in Monitors : \A f \in Rules(m) :
               /\ Triggered(f, params'[m])
                     => alerts'[m][f].Count = alerts[m][f].Count + 1
               /\ ~Triggered(f, params'[m]) => alerts'[m][f].Count = 0]_vars

\* a Write of two records that both went into rt_p95 and satisfy the
\* response-time rule left its Count at 1
C21_Witness ==
    /\ call.name = "Write"
    /\ FoldedFor("www", "rt_p95 > 1", call.arg) = 2
    /\ params["www"]["rt_p95"] > 1
    /\ alerts["www"]["rt_p95 > 1"].Count = 1
    /\ alerts["www"]["status_504 > 5"].Count = 0

----------------------------------------------------------------------------
(* What one ProcessMetric call may change *)

\* the keys of m.fields that a step has added or given another value
ChangedKeys(old, new) ==
    {k \in DOMAIN old \cup DOMAIN new :
        k \notin DOMAIN old \/ k \notin DOMAIN new \/ old[k] # new[k]}

\* the key a record may change in monitor m: rt_p95 for a matching record
\* with a status in [200, 300) and a numeric rt_p95, status_<status text>
\* for one with a status from 400 on and a numeric rt_count, none otherwise
KeysOf ==
    [m \in Monitors |->
       [metric \in AllMetrics |->
          IF ~Matches(m, metric) \/ "status" \notin DOMAIN metric.tags
             \/ ParseNumber(metric.tags["status"]).err # Nil
          THEN {}
          ELSE IF /\ 200 <= ParseNumber(metric.tags["status"]).v
                  /\ ParseNumber(metric.tags["status"]).v < 300
                  /\ "rt_p95" \in DOMAIN metric.fields
                  /\ getFloat(metric.fields["rt_p95"]).err = Nil
          THEN {"rt_p95"}
          ELSE IF /\ ParseNumber(metric.tags["status"]).v >= 400
                  /\ "rt_count" \in DOMAIN metric.fields
                  /\ getFloat(metric.fields["rt_count"]).err = Nil
          THEN {"status_" \o metric.tags["status"]}
          ELSE {}]]

\* the matching records of the model with a status below 200
Below200 ==
    [m \in Monitors |->
       {metric \in AllMetrics : Matches(m, metric) /\ StatusIn(metric, 0, 200)}]

\* C22: a ProcessMetric call changes at most one key of m.fields, and only
\* rt_p95 for a status in [200, 300) with a numeric rt_p95 or
\* status_<status text> for a status from 400 on with a numeric rt_count;
\* a call that returns an error, and a call on a matching record with a
\* status below 200, changes none; no call changes another monitor's fields
C22_OneKeyPerCall ==
    [][\A m \in Monitors :
         (call'.name = "ProcessMetric" /\ call'.monitor = m) =>
           /\ fields'[m] # fields[m] =>
                 \E k \in KeysOf[m][call'.arg[1]] :
                    ChangedKeys(fields[m], fields'[m]) = {k}
           /\ call'.err # Nil => fields'[m] = fields[m]
           /\ call'.arg[1] \in Below200[m] => fields'[m] = fields[m]
           /\ \A other \in Monitors \ {m} : fields'[other] = fields[other]]_vars

\* a call on a record with status 504 and a count given as a string has
\* added the key status_504 and nothing else
C22_Witness ==
    /\ call.name = "ProcessMetric"
    /\ call.monitor = "www"
    /\ call.arg[1] = MetricStringCount
    /\ call.err = Nil
    /\ DOMAIN fields["www"] = {"status_504"}
    /\ KeysOf["www"][MetricStringCount] = {"status_504"}

----------------------------------------------------------------------------
(* One goroutine and one request per message *)

\* how often the message is among those the monitors returned in a cycle
Returned(msg, out) ==
    Cardinality({p \in UNION {{m} \X DOMAIN out[m] : m \in Monitors} :
                    out[p[1]][p[2]] = msg})

\* C23: a Write starts exactly one goroutine per message its cycles
\* returned and none else; a goroutine makes its one request for a message
\* that was in flight and is gone afterwards whether the request failed or
\* not, so that no message is posted again and none is posted that no
\* cycle returned (step by step, the requests made and the goroutines in
\* flight together are the messages returned so far)
C23_OneAttemptPerMessage ==
    [][/\ call'.name = "Write" =>
            /\ \A msg \in BagToSet(inflight') :
                  CopiesIn(msg, inflight')
                     = CopiesIn(msg, inflight) + Returned(msg, outputs')
            /\ BagToSet(inflight) \subseteq BagToSet(inflight')
            /\ \A m \in Monitors : \A i \in DOMAIN outputs'[m] :
                  BagIn(outputs'[m][i], inflight')
       /\ call'.name = "write" =>
            /\ Len(call'.arg) = 1
            /\ CopiesIn(call'.arg[1], inflight) >= 1
            /\ CopiesIn(call'.arg[1], inflight')
                  = CopiesIn(call'.arg[1], inflight) - 1
            /\ BagCardinality(inflight') = BagCardinality(inflight) - 1
            /\ inflight' \sqsubseteq inflight
            /\ outputs' = outputs]_vars

\* the request for one of two messages in flight has failed: its goroutine
\* is gone, and the other one is still to make its request
C23_Witness ==
    /\ call.name = "write"
    /\ call.err # Nil
    /\ Len(call.arg) = 1
    /\ ~BagIn(call.arg[1], inflight)
    /\ BagCardinality(inflight) = 1

----------------------------------------------------------------------------
(* The order of the requests *)

\* C24: nothing orders the requests: whichever messages are in flight, of
\* whatever cycles and rules, the goroutine of each of them may be the next
\* to make its request; so the OK message of a rule may be posted while
\* the ALERT message of an earlier cycle of the rule is still in flight
C24_AnyRequestNext ==
    \A msg \in BagToSet(inflight) : ENABLED writePosting(msg, <<msg>>)

\* the last Write returned the OK message of a rule of www, that message
\* has been posted, and an ALERT message of the rule, which an earlier
\* Write must have returned, is still in flight
C24_Witness ==
    /\ call.name = "write"
    /\ Len(call.arg) = 1
    /\ call.arg[1].tpl = "OK"
    /\ outputs["www"] = <<call.arg[1]>>
    /\ \E msg \in BagToSet(inflight) :
          /\ msg.tpl = "ALERT"
          /\ msg.Monitor = "www"
          /\ msg.Formula = call.arg[1].Formula

====
